---- MODULE Spec2Model ----
(***************************************************************************)
(* Model of GARRec (src/code/model_GARRec.py): one embedding table for     *)
(* users and items, a content feature bank, a generator, a discriminator,  *)
(* the scorer (forward) and the loss composer (loss).                      *)
(*                                                                         *)
(* Numbers are fixed point.  Embeddings, features and activations are in   *)
(* tenths, probabilities in thousandths, losses in thousandths of a nat.   *)
(* A tensor of rank 1 is a sequence, of rank 2 a sequence of rows.  A      *)
(* unified id u addresses row u + 1 of a table.  An optional value is a    *)
(* set holding at most one element.  The fields emb_id, feat_id and result  *)
(* are written once by the constructor and read by no method; they are     *)
(* left out.                                                               *)
(***************************************************************************)
EXTENDS Integers, Sequences, FiniteSets

VARIABLES pc, args, num_user, num_item, contrastive, reg_weight, num_neg,
          warm_item, cold_item, id_embedding, v_feat, a_feat, t_feat,
          content_feat, generator, discriminator, ret

vars == <<pc, args, num_user, num_item, contrastive, reg_weight, num_neg,
          warm_item, cold_item, id_embedding, v_feat, a_feat, t_feat,
          content_feat, generator, discriminator, ret>>

hyper == <<num_user, num_item, contrastive, reg_weight, num_neg>>
partition == <<warm_item, cold_item>>
features == <<v_feat, a_feat, t_feat, content_feat>>
params == <<id_embedding, generator, discriminator>>

\* Bounds of the model.
MaxUser == 2
MaxItem == 2
MaxLen == 2
MaxB == 2
\* dim_E, the embedding dimension handed to the constructor.
DimE == 2
\* Width of the hidden layers (256 in the code), scaled down.
HiddenDim == 2

\* Seeds of the weight families the random initialisation and the optimizer
\* draw from.
Seeds == {0, 1}

\* Hyperparameter settings handed to the constructor: contrastive in tenths,
\* reg_weight, num_neg.
HyperSamples ==
  { [contrastive |-> 0, reg_weight |-> 0, num_neg |-> 1],
    [contrastive |-> 5, reg_weight |-> 1, num_neg |-> 2],
    [contrastive |-> 10, reg_weight |-> 2, num_neg |-> 1] }

----------------------------------------------------------------------------
\* Optional values (Python's None).
None == {}
Some(x) == {x}
Get(o) == CHOOSE x \in o : TRUE

\* Arithmetic helpers.
TDiv(a, b) == IF a >= 0 THEN a \div b ELSE -((-a) \div b)

ISqrt(n) == CHOOSE r \in 0..n : r * r <= n /\ (r + 1) * (r + 1) > n

RECURSIVE SumSeq(_)
SumSeq(s) == IF s = <<>> THEN 0 ELSE Head(s) + SumSeq(Tail(s))

Dot(x, y) == SumSeq([k \in 1..Len(x) |-> x[k] * y[k]])

RECURSIVE Flatten(_)
Flatten(m) == IF m = <<>> THEN <<>> ELSE Head(m) \o Flatten(Tail(m))

\* torch.norm(x, p=2) of a matrix: the root of the sum of all squares.
Norm2(m) == LET x == Flatten(m) IN ISqrt(Dot(x, x))

----------------------------------------------------------------------------
\* Tensor indexing t[i]: an index in [-n, n) is accepted and a negative one
\* counts from the end; any other index raises IndexError.
IndexOk(n, i) == -n <= i /\ i < n
IndexPos(n, i) == IF i >= 0 THEN i + 1 ELSE n + i + 1

\* t[ids]: a row gather, defined when every index is accepted.
GatherOk(t, ids) == \A r \in 1..Len(ids) : IndexOk(Len(t), ids[r])
Gather(t, ids) == [r \in 1..Len(ids) |-> t[IndexPos(Len(t), ids[r])]]

\* t[:, 0] of a rank-2 tensor.
Column0(t) == [r \in 1..Len(t) |-> t[r][1]]

----------------------------------------------------------------------------
\* F.normalize(x, dim=1): every row divided by max(its L2 norm, eps); a zero
\* row stays zero.
NormalizeRow(x) ==
  LET n10 == ISqrt(100 * Dot(x, x))
  IN [j \in 1..Len(x) |-> IF n10 = 0 THEN 0 ELSE TDiv(x[j] * 100, n10)]

Normalize(m) == [i \in 1..Len(m) |-> NormalizeRow(m[i])]

NormalizeOpt(f) == IF f = None THEN None ELSE Some(Normalize(Get(f)))

\* The modalities appended in the order text, audio, visual.
ContentListReversed(v, a, t) ==
  (IF t # None THEN <<Get(t)>> ELSE <<>>)
  \o (IF a # None THEN <<Get(a)>> ELSE <<>>)
  \o (IF v # None THEN <<Get(v)>> ELSE <<>>)

\* content_list: the supplied modalities in the order visual, audio, text.
ContentList(v, a, t) ==
  (IF v # None THEN <<Get(v)>> ELSE <<>>)
  \o (IF a # None THEN <<Get(a)>> ELSE <<>>)
  \o (IF t # None THEN <<Get(t)>> ELSE <<>>)

\* torch.cat(list, dim=1): defined when all the matrices have the same row
\* count; it raises otherwise.
CatOk(list) == \A k \in 1..Len(list) : Len(list[k]) = Len(list[1])

RECURSIVE CatRow(_, _)
CatRow(list, i) ==
  IF list = <<>> THEN <<>> ELSE Head(list)[i] \o CatRow(Tail(list), i)

Cat(list) == [i \in 1..Len(list[1]) |-> CatRow(list, i)]

----------------------------------------------------------------------------
\* Weight families.  nn.Linear(in, out) holds a weight matrix and a bias.
Linear(s, salt, in, out) ==
  [ W |-> [o \in 1..out |-> [i \in 1..in |-> ((o * 3 + i * 5 + s * 2 + salt) % 3) - 1]],
    b |-> [o \in 1..out |-> (((o + s + salt) % 3) - 1) * 5] ]

LinearApply(l, x) == [o \in 1..Len(l.W) |-> Dot(l.W[o], x) + l.b[o]]

\* nn.LeakyReLU(0.2)
LeakyReLU(x) == [k \in 1..Len(x) |-> IF x[k] >= 0 THEN x[k] ELSE TDiv(2 * x[k], 10)]

\* nn.Sigmoid, by unit of the logit, saturating at -4 and 4; in thousandths.
SigmoidTable == <<18, 47, 119, 269, 500, 731, 881, 953, 982>>

Sigmoid(z) ==
  LET q == TDiv(z, 10)
      c == IF q < -4 THEN -4 ELSE IF q > 4 THEN 4 ELSE q
  IN SigmoidTable[c + 5]

\* -log(p) for a probability of the table, in thousandths.
NegLogTable == <<4018, 3049, 2127, 1313, 693, 313, 127, 49, 18>>

NegLog(p) == NegLogTable[CHOOSE q \in 1..Len(SigmoidTable) : SigmoidTable[q] = p]

\* xavier_normal_(rand(num_user + num_item, dim_E)): one table of a family.
EmbeddingTable(s, n) ==
  [id \in 1..n |-> [k \in 1..DimE |-> (((id * 7 + k * 3 + s * 5) % 9) - 4) * 5]]

\* nn.Sequential(Linear(content_dim, 256), LeakyReLU(0.2), Linear(256, dim_E))
NewGenerator(s, content_dim) ==
  [ l1 |-> Linear(s, 1, content_dim, HiddenDim),
    l2 |-> Linear(s, 2, HiddenDim, DimE) ]

\* nn.Sequential(Linear(2 dim_E, 256), LeakyReLU(0.2), Linear(256, 1), Sigmoid())
NewDiscriminator(s) ==
  [ l1 |-> Linear(s, 3, 2 * DimE, HiddenDim),
    l2 |-> Linear(s, 4, HiddenDim, 1) ]

GeneratorApply(g, m) ==
  [i \in 1..Len(m) |-> LinearApply(g.l2, LeakyReLU(LinearApply(g.l1, m[i])))]

DiscriminatorApply(d, m) ==
  [i \in 1..Len(m) |-> Sigmoid(LinearApply(d.l2, LeakyReLU(LinearApply(d.l1, m[i])))[1])]

----------------------------------------------------------------------------
\* Constructor arguments.
FeatWidth(m) == CASE m = "v" -> 1 [] m = "a" -> 2 [] m = "t" -> 3
FeatSalt(m) == CASE m = "v" -> 0 [] m = "a" -> 1 [] m = "t" -> 3

FeatMatrix(m, rows) ==
  [i \in 1..rows |-> [j \in 1..FeatWidth(m) |-> ((i * 3 + j * 2 + FeatSalt(m)) % 5) - 1]]

FeatChoices(m) == {None} \cup {Some(FeatMatrix(m, rows)) : rows \in 1..MaxItem}

Init ==
  /\ pc = "new"
  /\ \E nu \in 1..MaxUser, ni \in 1..MaxItem, h \in HyperSamples,
        v \in FeatChoices("v"), a \in FeatChoices("a"), t \in FeatChoices("t") :
       args = [ num_user |-> nu, num_item |-> ni, hyper |-> h,
                warm_item |-> nu .. (nu + ((ni + 1) \div 2) - 1),
                cold_item |-> (nu + ((ni + 1) \div 2)) .. (nu + ni - 1),
                v_feat |-> v, a_feat |-> a, t_feat |-> t ]
  /\ num_user = 0 /\ num_item = 0
  /\ contrastive = 0 /\ reg_weight = 0 /\ num_neg = 0
  /\ warm_item = {} /\ cold_item = {}
  /\ id_embedding = <<>>
  /\ v_feat = None /\ a_feat = None /\ t_feat = None
  /\ content_feat = None /\ generator = None
  /\ discriminator = None
  /\ ret = [op |-> "none"]

\* GARRec.__init__
GARRec_init ==
  /\ pc = "new"
  /\ LET v == NormalizeOpt(args.v_feat)
         a == NormalizeOpt(args.a_feat)
         t == NormalizeOpt(args.t_feat)
         content_list == ContentList(v, a, t)
     IN IF Len(content_list) > 0 /\ ~CatOk(content_list)
        THEN \* torch.cat raises: no instance
             /\ pc' = "failed"
             /\ UNCHANGED <<hyper, partition, features, params>>
        ELSE /\ pc' = "ready"
             /\ num_user' = args.num_user
             /\ num_item' = args.num_item
             /\ contrastive' = args.hyper.contrastive
             /\ reg_weight' = args.hyper.reg_weight
             /\ num_neg' = args.hyper.num_neg
             /\ warm_item' = args.warm_item
             /\ cold_item' = args.cold_item
             /\ v_feat' = v /\ a_feat' = a /\ t_feat' = t
             /\ \E s \in Seeds :
                  /\ id_embedding' = EmbeddingTable(s, args.num_user + args.num_item)
                  /\ discriminator' = Some(NewDiscriminator(s))
                  /\ IF Len(content_list) > 0
                     THEN /\ content_feat' = Some(Cat(content_list))
                          /\ generator' = Some(NewGenerator(s, Len(Cat(content_list)[1])))
                     ELSE /\ content_feat' = None
                          /\ generator' = None
  /\ UNCHANGED <<args, ret>>

----------------------------------------------------------------------------
\* GARRec.feature_extractor: the generated embeddings of all the rows of the
\* content bank, or None.
FeatureExtractor(gen, content) ==
  IF gen # None /\ content # None
  THEN Some(GeneratorApply(Get(gen), Get(content)))
  ELSE None

\* The generated embeddings written over the content bank.
feature_extractor_caching ==
  /\ pc = "ready"
  /\ LET gen_emb == FeatureExtractor(generator, content_feat)
     IN /\ ret' = [op |-> "feature_extractor",
                   status |-> IF gen_emb = None THEN "None" ELSE "ok",
                   out |-> gen_emb]
        /\ content_feat' = gen_emb
  /\ pc' = "returned"
  /\ UNCHANGED <<args, hyper, partition, v_feat, a_feat, t_feat, params>>

feature_extractor ==
  /\ pc = "ready"
  /\ LET gen_emb == FeatureExtractor(generator, content_feat)
     IN ret' = [op |-> "feature_extractor",
                status |-> IF gen_emb = None THEN "None" ELSE "ok",
                out |-> gen_emb]
  /\ pc' = "returned"
  /\ UNCHANGED <<args, hyper, partition, features, params>>

\* torch.matmul(user_emb, item_emb.t())
Transpose(m) == [k \in 1..Len(m[1]) |-> [j \in 1..Len(m) |-> m[j][k]]]

MatMul(x, y) ==
  [i \in 1..Len(x) |->
     [j \in 1..Len(y[1]) |-> SumSeq([k \in 1..Len(y) |-> x[i][k] * y[k][j]])]]

\* The operands exchanged.
ScoresSwapped(user_emb, item_emb) == MatMul(item_emb, Transpose(user_emb))

Scores(user_emb, item_emb) == MatMul(user_emb, Transpose(item_emb))

\* GARRec.forward on two rank-1 id tensors.
Forward(E, user_tensor, item_tensor) ==
  IF ~GatherOk(E, user_tensor) \/ ~GatherOk(E, item_tensor)
  THEN [status |-> "IndexError", out |-> <<>>]
  ELSE [status |-> "ok",
        out |-> Scores(Gather(E, user_tensor), Gather(E, item_tensor))]

\* First ids of the item tensors handed to the calls: from below the id space
\* to above it.
IdSamples == {-(num_user + num_item) - 1} \cup (-1 .. (num_user + num_item))

\* First ids of the user tensors: a negative id, the first id and the last id
\* of the id space.
UserSamples == {-1, 0, num_user + num_item - 1}

IdRange(first, n) == [r \in 1..n |-> first + r - 1]

forward ==
  /\ pc = "ready"
  /\ \E u \in UserSamples, i \in IdSamples, nu \in 1..MaxLen, ni \in 1..MaxLen :
       LET user_tensor == IdRange(u, nu)
           item_tensor == IdRange(i, ni)
           r == Forward(id_embedding, user_tensor, item_tensor)
       IN ret' = [op |-> "forward", status |-> r.status, out |-> r.out,
                  user_tensor |-> user_tensor, item_tensor |-> item_tensor]
  /\ pc' = "returned"
  /\ UNCHANGED <<args, hyper, partition, features, params>>

----------------------------------------------------------------------------
\* F.binary_cross_entropy(d, target) with target all ones (1) or all zeros
\* (0): the mean over the batch of -log(d), or of -log(1 - d).
BCE(d, target) ==
  SumSeq([r \in 1..Len(d) |->
            target * NegLog(d[r]) + (1 - target) * NegLog(1000 - d[r])])
    \div Len(d)

\* The last column read in place of the first.
PosItemIdsLast(item_tensor) ==
  [r \in 1..Len(item_tensor) |-> item_tensor[r][Len(item_tensor[r])]]

\* pos_item_ids = item_tensor[:, 0]
PosItemIds(item_tensor) == Column0(item_tensor)

\* The index handed to gen_emb_all[...]
LocalIndex(pos_item_ids, nu) == [r \in 1..Len(pos_item_ids) |-> pos_item_ids[r] - nu]

\* torch.cat([x, y], dim=1)
CatPair(x, y) == [r \in 1..Len(x) |-> x[r] \o y[r]]

\* The two weights exchanged.
CombinedLossSwapped(c, g_loss, d_loss) == (c * d_loss + (10 - c) * g_loss) \div 10

\* combined_loss = contrastive * g_loss + (1 - contrastive) * d_loss
CombinedLoss(c, g_loss, d_loss) == (c * g_loss + (10 - c) * d_loss) \div 10

\* reg_loss = reg_weight * (norm(user_emb) + norm(pos_item_emb)) / 2
RegLoss(w, user_emb, pos_item_emb) == (w * (Norm2(user_emb) + Norm2(pos_item_emb))) \div 2

\* The user embeddings taken as the fallback.
FakeFallbackUser(user_emb, pos_item_emb) == user_emb

\* The fallback of the fake embeddings when there is no generator.
FakeFallback(user_emb, pos_item_emb) == pos_item_emb

\* The part of GARRec.loss after the three gathers.
LossTail(self, user_emb, pos_item_emb, fake_item_emb) ==
  LET real_pair == CatPair(user_emb, pos_item_emb)
      fake_pair == CatPair(user_emb, fake_item_emb)
      d_real == DiscriminatorApply(Get(self.discriminator), real_pair)
      d_fake == DiscriminatorApply(Get(self.discriminator), fake_pair)
      d_loss == BCE(d_real, 1) + BCE(d_fake, 0)
      g_loss == BCE(d_fake, 1)
  IN [status |-> "ok",
      pos_item_emb |-> pos_item_emb, fake_item_emb |-> fake_item_emb,
      d_real |-> d_real, d_fake |-> d_fake,
      out |-> <<CombinedLoss(self.contrastive, g_loss, d_loss),
                RegLoss(self.reg_weight, user_emb, pos_item_emb)>>]

IndexError == [status |-> "IndexError", out |-> <<>>]

\* GARRec.loss on two rank-2 id tensors.
Loss(self, user_tensor, item_tensor) ==
  LET user_ids == Column0(user_tensor)
      pos_item_ids == PosItemIds(item_tensor)
      E == self.id_embedding
  IN IF ~GatherOk(E, user_ids) \/ ~GatherOk(E, pos_item_ids)
     THEN IndexError
     ELSE LET user_emb == Gather(E, user_ids)
              pos_item_emb == Gather(E, pos_item_ids)
          IN IF self.generator # None /\ self.content_feat # None
             THEN LET gen_emb_all == Get(FeatureExtractor(self.generator, self.content_feat))
                      local == LocalIndex(pos_item_ids, self.num_user)
                  IN IF ~GatherOk(gen_emb_all, local)
                     THEN IndexError
                     ELSE LossTail(self, user_emb, pos_item_emb, Gather(gen_emb_all, local))
             ELSE LossTail(self, user_emb, pos_item_emb, FakeFallback(user_emb, pos_item_emb))

Self ==
  [num_user |-> num_user, num_item |-> num_item, contrastive |-> contrastive,
   reg_weight |-> reg_weight, id_embedding |-> id_embedding,
   content_feat |-> content_feat, generator |-> generator,
   discriminator |-> discriminator]

\* Values of the columns after the first: an item id and an id above the id
\* space.
FillSamples == {num_user, num_user + num_item + 1}

\* A batch of B rows and width columns: column 0 runs from first, the other
\* columns hold fill.
Batch(first, B, width, fill) ==
  [r \in 1..B |-> [c \in 1..width |-> IF c = 1 THEN first + r - 1 ELSE fill]]

loss ==
  /\ pc = "ready"
  /\ \E u \in UserSamples, i \in IdSamples, B \in 1..MaxB, f \in FillSamples :
       LET user_tensor == Batch(u, B, num_neg + 1, f)
           item_tensor == Batch(i, B, num_neg + 1, f)
           r == Loss(Self, user_tensor, item_tensor)
       IN ret' = [op |-> "loss", user_tensor |-> user_tensor,
                  item_tensor |-> item_tensor, r |-> r]
  /\ pc' = "returned"
  /\ UNCHANGED <<args, hyper, partition, features, params>>

\* The caller takes the result of a call.
Return ==
  /\ pc = "returned"
  /\ pc' = "ready"
  /\ ret' = [op |-> "none"]
  /\ UNCHANGED <<args, hyper, partition, features, params>>

\* The external optimizer replaces the three parameter sets between calls.
OptimizerStep ==
  /\ pc = "ready"
  /\ \E s \in Seeds :
       /\ id_embedding' = EmbeddingTable(s, num_user + num_item)
       /\ discriminator' = Some(NewDiscriminator(s))
       /\ generator' = IF generator = None THEN None
                       ELSE Some(NewGenerator(s, Len(Get(content_feat)[1])))
  /\ UNCHANGED <<pc, args, hyper, partition, features, ret>>

Next ==
  \/ GARRec_init
  \/ feature_extractor
  \/ forward
  \/ loss
  \/ Return
  \/ OptimizerStep

Spec == Init /\ [][Next]_vars

----------------------------------------------------------------------------
\* Properties.

Constructed == pc \in {"ready", "returned"}
NumIds == num_user + num_item
ValidIds(ids) == \A r \in 1..Len(ids) : 0 <= ids[r] /\ ids[r] < NumIds
ItemIds(ids) == \A r \in 1..Len(ids) : num_user <= ids[r] /\ ids[r] < NumIds
Supplied == {f \in {args.v_feat, args.a_feat, args.t_feat} : f # None}
Width(f) == IF f = None THEN 0 ELSE Len(Get(f)[1])

\* C1: on the generator path of loss, a positive item id in [0, num_user)
\* (all the ids of the batch being ids of the embedding store) makes the call
\* fail.
C1_NegativeLocalIndexFatal ==
  (/\ ret.op = "loss"
   /\ generator # None
   /\ ValidIds(Column0(ret.user_tensor)) /\ ValidIds(Column0(ret.item_tensor))
   /\ \E r \in 1..Len(ret.item_tensor) :
        0 <= ret.item_tensor[r][1] /\ ret.item_tensor[r][1] < num_user)
  => ret.r.status # "ok"

\* C2: forward and loss fail on every looked-up id outside [0, num_user +
\* num_item), negative ids included.
C2_OutOfRangeIdFatal ==
  /\ (ret.op = "forward" /\ ~(ValidIds(ret.user_tensor) /\ ValidIds(ret.item_tensor)))
       => ret.status # "ok"
  /\ (ret.op = "loss" /\ ~(ValidIds(Column0(ret.user_tensor))
                           /\ ValidIds(Column0(ret.item_tensor))))
       => ret.r.status # "ok"

\* C3: construction fails whenever a supplied feature matrix has a row count
\* other than num_item, and no instance holds a content bank of another row
\* count.
C3_RowMismatchFatal ==
  /\ (pc # "new" /\ \E f \in Supplied : Len(Get(f)) # args.num_item) => pc = "failed"
  /\ (Constructed /\ content_feat # None) => Len(Get(content_feat)) = num_item

\* C4: forward on valid ids returns the |U| x |I| matrix of the dot products
\* of the embedding rows of U[i] and I[j].
C4_ScoreAllPairs ==
  (ret.op = "forward" /\ ValidIds(ret.user_tensor) /\ ValidIds(ret.item_tensor))
  => /\ ret.status = "ok"
     /\ Len(ret.out) = Len(ret.user_tensor)
     /\ \A i \in 1..Len(ret.user_tensor) :
          /\ Len(ret.out[i]) = Len(ret.item_tensor)
          /\ \A j \in 1..Len(ret.item_tensor) :
               ret.out[i][j] =
                 SumSeq([k \in 1..DimE |->
                           id_embedding[ret.user_tensor[i] + 1][k]
                           * id_embedding[ret.item_tensor[j] + 1][k]])

C4_Witness ==
  /\ ret.op = "forward" /\ ret.status = "ok"
  /\ ValidIds(ret.user_tensor) /\ ValidIds(ret.item_tensor)
  /\ Len(ret.user_tensor) = 2 /\ Len(ret.item_tensor) = 1
  /\ ret.out[1] # ret.out[2]

\* C5: with no content modality, loss on valid ids does not raise, the fake
\* embedding of every row is the real embedding of its positive item, d_fake
\* equals d_real, and feature_extractor returns None.
C5_NoGeneratorFallback ==
  (Constructed /\ Supplied = {})
  => /\ ret.op = "feature_extractor" => ret.status = "None" /\ ret.out = None
     /\ (ret.op = "loss" /\ ValidIds(Column0(ret.user_tensor))
                         /\ ValidIds(Column0(ret.item_tensor)))
          => /\ ret.r.status = "ok"
             /\ \A r \in 1..Len(ret.item_tensor) :
                  ret.r.fake_item_emb[r] = id_embedding[ret.item_tensor[r][1] + 1]
             /\ ret.r.fake_item_emb = ret.r.pos_item_emb
             /\ ret.r.d_fake = ret.r.d_real

C5_Witness ==
  /\ Supplied = {} /\ ret.op = "loss" /\ ret.r.status = "ok"
  /\ Len(ret.item_tensor) = 2
  /\ ValidIds(Column0(ret.user_tensor)) /\ ValidIds(Column0(ret.item_tensor))
  /\ Column0(ret.user_tensor) # Column0(ret.item_tensor)

\* The batch t with the columns after the first set to f.
WithNegatives(t, f) ==
  [r \in 1..Len(t) |-> [c \in 1..Len(t[r]) |-> IF c = 1 THEN t[r][1] ELSE f]]

\* Values for the other columns of the user tensor and of the item tensor.
NegativeValues == { <<-3, NumIds + 1>>, <<0, num_user>>, <<NumIds + 1, -1>> }

\* C6: loss returns the same result for any two batches that agree on column
\* 0 of both tensors, whatever the other columns hold.
C6_NegativesNotConsumed ==
  ret.op = "loss"
  => \A f \in NegativeValues :
       LET other == Loss(Self, WithNegatives(ret.user_tensor, f[1]),
                               WithNegatives(ret.item_tensor, f[2]))
       IN other.status = ret.r.status /\ other.out = ret.r.out

C6_Witness ==
  /\ ret.op = "loss" /\ ret.r.status = "ok" /\ generator # None
  /\ ret.item_tensor[1][2] = NumIds + 1
  /\ Len(ret.item_tensor[1]) = 3

\* C7: forward, feature_extractor and loss change none of the embedding
\* store, the generator, the discriminator, the content bank and the warm and
\* cold sets; the three parameter sets change only in an optimizer step, and
\* the content bank and the warm and cold sets never change after
\* construction.
C7_NoSelfMutation ==
  [][ /\ (pc = "ready" /\ pc' = "returned")
         => UNCHANGED <<params, features, partition, hyper>>
      /\ pc = "returned" => UNCHANGED <<params, features, partition, hyper>>
      /\ Constructed => UNCHANGED <<features, partition, hyper>>
      /\ (Constructed /\ params' # params) => (pc = "ready" /\ pc' = "ready" /\ ret' = ret)
    ]_vars

C7_Witness ==
  /\ pc = "returned" /\ ret.op = "feature_extractor" /\ ret.status = "ok"
  /\ id_embedding # EmbeddingTable(0, NumIds)

\* C8: the combined loss is contrastive * g_loss + (1 - contrastive) * d_loss
\* with d_loss = BCE(d_real, 1) + BCE(d_fake, 0) and g_loss = BCE(d_fake, 1);
\* it is d_loss for contrastive 0 and g_loss for contrastive 1.
C8_ConvexCombination ==
  (ret.op = "loss" /\ ret.r.status = "ok")
  => LET B == Len(ret.r.d_real)
         d_loss == (SumSeq([r \in 1..B |-> NegLog(ret.r.d_real[r])]) \div B)
                   + (SumSeq([r \in 1..B |-> NegLog(1000 - ret.r.d_fake[r])]) \div B)
         g_loss == SumSeq([r \in 1..B |-> NegLog(ret.r.d_fake[r])]) \div B
         weighted == contrastive * g_loss + (10 - contrastive) * d_loss
     IN /\ 10 * ret.r.out[1] <= weighted /\ weighted < 10 * ret.r.out[1] + 10
        /\ contrastive = 0 => ret.r.out[1] = d_loss
        /\ contrastive = 10 => ret.r.out[1] = g_loss

C8_Witness ==
  /\ ret.op = "loss" /\ ret.r.status = "ok" /\ contrastive = 5
  /\ generator # None /\ ret.r.d_real # ret.r.d_fake /\ Len(ret.r.d_real) = 2

\* C9: on the generator path of loss, for positive item ids in [num_user,
\* num_user + num_item) the call returns and the fake embedding of a row is
\* row p - num_user of the output of feature_extractor.
C9_FakeIsGeneratedRow ==
  (/\ ret.op = "loss" /\ generator # None
   /\ ValidIds(Column0(ret.user_tensor)) /\ ItemIds(Column0(ret.item_tensor)))
  => LET gen_emb_all == Get(FeatureExtractor(generator, content_feat))
     IN /\ ret.r.status = "ok"
        /\ \A r \in 1..Len(ret.item_tensor) :
             LET local == ret.item_tensor[r][1] - num_user
             IN /\ 0 <= local /\ local < num_item
                /\ ret.r.fake_item_emb[r] = gen_emb_all[local + 1]

\* C10: the generator exists exactly when the content bank exists, exactly
\* when a modality was supplied; the bank is the supplied modalities,
\* normalized, side by side in the order visual, audio, text; and
\* feature_extractor returns a result exactly when the generator exists.
C10_GeneratorIffBank ==
  Constructed
  => /\ (generator # None) <=> (content_feat # None)
     /\ (content_feat # None) <=> (Supplied # {})
     /\ v_feat = NormalizeOpt(args.v_feat)
     /\ a_feat = NormalizeOpt(args.a_feat)
     /\ t_feat = NormalizeOpt(args.t_feat)
     /\ content_feat # None =>
          LET bank == Get(content_feat)
              wv == Width(args.v_feat)
              wa == Width(args.a_feat)
              wt == Width(args.t_feat)
          IN \A i \in 1..Len(bank) :
               /\ Len(bank[i]) = wv + wa + wt
               /\ \A j \in 1..Len(bank[i]) :
                    bank[i][j] = IF j <= wv THEN Get(v_feat)[i][j]
                                 ELSE IF j <= wv + wa THEN Get(a_feat)[i][j - wv]
                                 ELSE Get(t_feat)[i][j - wv - wa]
     /\ ret.op = "feature_extractor" => ((ret.status = "ok") <=> (generator # None))

C10_Witness ==
  /\ Constructed /\ args.v_feat # None /\ args.a_feat = None /\ args.t_feat # None
  /\ ret.op = "feature_extractor" /\ ret.status = "ok"
====
